---- MODULE Spec2Model ----
(***************************************************************************)
(* Model of the DynamoDB utility layer (lambda-layer/src/dynamodb_util.py) *)
(* and of the add-users handler (lambda-code/src/add-users).               *)
(*                                                                         *)
(* Python values are tagged pairs <<type name, payload>>.                  *)
(* A Python dict is an ordered sequence of <<key, value>> pairs (dicts     *)
(* keep insertion order), a Python list a sequence of values.  A wire      *)
(* (DynamoDB attribute) value is itself a Python dict such as {"S": "Ana"}.*)
(***************************************************************************)
EXTENDS Integers, Sequences, FiniteSets, TLC

VARIABLES table, bulk, run

vars == <<table, bulk, run>>

(***************************************************************************)
(* Bounds of the model                                                     *)
(***************************************************************************)
MaxLen == 2         \* longest list / nested mapping fed to the codec
MaxUsers == 30      \* largest userCount of a batchWriteItem request
MaxItems == 52      \* longest list handed to batch_list_dicts on its own
MaxInvocations == 2 \* handler invocations that run at the same time

(***************************************************************************)
(* Python values                                                           *)
(***************************************************************************)
PyNone == <<"NoneType", "None">>
PyBool(b) == <<"bool", b>>
PyInt(n) == <<"int", n>>
\* an int of more than 38 significant digits, e.g. 10**40 + 1
BigInt == <<"bigint", "10**40+1">>
\* a float; the payload is its literal
PyFloat(lit) == <<"float", lit>>
PyDecimal(n) == <<"Decimal", n>>
PyStr(s) == <<"str", s>>
\* the str holding the decimal digits of n, i.e. str(n)
PyNumStr(n) == <<"numstr", n>>
\* the str that Faker (or uuid4, for field "_id") generated for the n-th user
PyFake(field, n) == <<"fake", <<field, n>>>>
PyList(s) == <<"list", s>>
PyDict(pairs) == <<"dict", pairs>>

\* the wire value {tag: payload}, and the wire value {} that carries no tag
Wire(tag, payload) == PyDict(<< <<tag, payload>> >>)
NoTag == PyDict(<<>>)

Ok(x) == [ok |-> TRUE, val |-> x]
Exc(type, msg) == <<type, msg>>
Err(type, msg) == [ok |-> FALSE, val |-> Exc(type, msg)]

\* dict helpers: key in d, d[key], list(d.keys())
DictKeys(d) == {d[2][i][1] : i \in 1..Len(d[2])}
Has(d, k) == \E i \in 1..Len(d[2]) : d[2][i][1] = k
Get(d, k) == d[2][CHOOSE i \in 1..Len(d[2]) : d[2][i][1] = k][2]

\* d.update({k: x}): replaces the value in place, or appends the new key
DictUpdate(d, k, x) ==
    IF Has(d, k)
    THEN PyDict([i \in 1..Len(d[2]) |-> IF d[2][i][1] = k THEN <<k, x>> ELSE d[2][i]])
    ELSE PyDict(Append(d[2], <<k, x>>))

\* the first failing result of a comprehension, which is the one that raises
FirstBad(rs) == rs[CHOOSE i \in 1..Len(rs) :
                      ~rs[i].ok /\ \A j \in 1..(i - 1) : rs[j].ok]
AllOk(rs) == \A i \in 1..Len(rs) : rs[i].ok

\* Python's == on the values of the model
IsNumeric(x) == x[1] \in {"bool", "int", "Decimal"}
NumOf(x) == IF x[1] = "bool" THEN (IF x[2] THEN 1 ELSE 0) ELSE x[2]

RECURSIVE PyEq(_, _)
PyEq(a, b) ==
    IF IsNumeric(a) /\ IsNumeric(b) THEN NumOf(a) = NumOf(b)
    ELSE IF a[1] # b[1] THEN FALSE
    ELSE IF a[1] = "list"
         THEN /\ Len(a[2]) = Len(b[2])
              /\ \A i \in 1..Len(a[2]) : PyEq(a[2][i], b[2][i])
    ELSE IF a[1] = "dict"
         THEN /\ DictKeys(a) = DictKeys(b)
              /\ Len(a[2]) = Len(b[2])
              /\ \A k \in DictKeys(a) : PyEq(Get(a, k), Get(b, k))
    ELSE a[2] = b[2]

(***************************************************************************)
(* The attribute codec: boto3's TypeSerializer / TypeDeserializer as used  *)
(* by serialize_item and deserialize_item                                  *)
(***************************************************************************)
\* TypeSerializer._is_number: isinstance(value, (int, Decimal)); a bool is an int
is_number(value) == value[1] \in {"bool", "int", "bigint", "Decimal"}

\* _serialize_n: str(DYNAMODB_CONTEXT.create_decimal(value)); the context has
\* 38 digits of precision and traps Inexact and Rounded
serialize_n(value) ==
    IF value[1] = "bigint" THEN Err("decimal.Inexact", "Inexact")
    ELSE Ok(PyNumStr(NumOf(value)))

RECURSIVE serialize(_)
serialize(value) ==
    IF value[1] = "NoneType" THEN Ok(PyDict(<< <<"NULL", PyBool(TRUE)>> >>))
    ELSE IF value[1] = "bool" THEN Ok(PyDict(<< <<"BOOL", value>> >>))
    ELSE IF is_number(value)
         THEN LET n == serialize_n(value)
              IN  IF n.ok THEN Ok(PyDict(<< <<"N", n.val>> >>)) ELSE n
    ELSE IF value[1] = "float"
         THEN Err("TypeError", "Float types are not supported. Use Decimal types instead.")
    ELSE IF value[1] \in {"str", "numstr", "fake"} THEN Ok(PyDict(<< <<"S", value>> >>))
    ELSE IF value[1] = "dict"
         THEN LET rs == [i \in 1..Len(value[2]) |-> serialize(value[2][i][2])]
              IN  IF AllOk(rs)
                  THEN Ok(PyDict(<< <<"M", PyDict([i \in 1..Len(value[2]) |->
                                            <<value[2][i][1], rs[i].val>>])>> >>))
                  ELSE FirstBad(rs)
    ELSE IF value[1] = "list"
         THEN LET rs == [i \in 1..Len(value[2]) |-> serialize(value[2][i])]
              IN  IF AllOk(rs)
                  THEN Ok(PyDict(<< <<"L", PyList([i \in 1..Len(value[2]) |-> rs[i].val])>> >>))
                  ELSE FirstBad(rs)
    ELSE Err("TypeError", "Unsupported type")

\* a slip that hands the wire digits back as they are, without the conversion
deserialize_n_keeps_text(payload) ==
    IF payload[1] = "numstr" THEN Ok(payload)
    ELSE Err("decimal.InvalidOperation", "ConversionSyntax")

\* _deserialize_n: DYNAMODB_CONTEXT.create_decimal(value)
deserialize_n(payload) ==
    IF payload[1] = "numstr" THEN Ok(PyDecimal(payload[2]))
    ELSE Err("decimal.InvalidOperation", "ConversionSyntax")

\* TypeDeserializer.deserialize: the type is list(value.keys())[0]
RECURSIVE deserialize(_)
deserialize(value) ==
    IF value[2] = <<>>
    THEN Err("TypeError", "Value must be a nonempty dictionary whose key is a valid dynamodb type.")
    ELSE LET dynamodb_type == value[2][1][1]
             payload == value[2][1][2]
         IN  IF dynamodb_type = "NULL" THEN Ok(PyNone)
             ELSE IF dynamodb_type = "BOOL" THEN Ok(payload)
             ELSE IF dynamodb_type = "N" THEN deserialize_n(payload)
             ELSE IF dynamodb_type = "S" THEN Ok(payload)
             ELSE IF dynamodb_type = "L"
                  THEN LET rs == [i \in 1..Len(payload[2]) |-> deserialize(payload[2][i])]
                       IN  IF AllOk(rs)
                           THEN Ok(PyList([i \in 1..Len(payload[2]) |-> rs[i].val]))
                           ELSE FirstBad(rs)
             ELSE IF dynamodb_type = "M"
                  THEN LET rs == [i \in 1..Len(payload[2]) |-> deserialize(payload[2][i][2])]
                       IN  IF AllOk(rs)
                           THEN Ok(PyDict([i \in 1..Len(payload[2]) |->
                                            <<payload[2][i][1], rs[i].val>>]))
                           ELSE FirstBad(rs)
             ELSE Err("TypeError", "Dynamodb type is not supported")

\* {k: serializer.serialize(v) for k, v in item.items()}
serialize_item(item) ==
    LET rs == [i \in 1..Len(item[2]) |-> serialize(item[2][i][2])]
    IN  IF AllOk(rs)
        THEN Ok(PyDict([i \in 1..Len(item[2]) |-> <<item[2][i][1], rs[i].val>>]))
        ELSE FirstBad(rs)

\* a slip that skips the attributes it cannot deserialize instead of raising
deserialize_item_skips_bad(item) ==
    LET rs == [i \in 1..Len(item[2]) |-> deserialize(item[2][i][2])]
        good == SelectSeq([i \in 1..Len(item[2]) |-> i], LAMBDA i : rs[i].ok)
    IN  Ok(PyDict([j \in 1..Len(good) |-> <<item[2][good[j]][1], rs[good[j]].val>>]))

\* {k: deserializer.deserialize(v) for k, v in item.items()}
deserialize_item(item) ==
    LET rs == [i \in 1..Len(item[2]) |-> deserialize(item[2][i][2])]
    IN  IF AllOk(rs)
        THEN Ok(PyDict([i \in 1..Len(item[2]) |-> <<item[2][i][1], rs[i].val>>]))
        ELSE FirstBad(rs)

(***************************************************************************)
(* The remote store behind the transport handle (the boto3 DynamoDB client)*)
(* table: the items under the partition keys the requests name             *)
(* bulk:  the numbers of the generated users whose items the store holds   *)
(***************************************************************************)
Keys == {"k1", "k2"}
Names == {"Ana", "Bob"}
Absent == <<"absent", "absent">>

\* what the environment does to one transport call: it succeeds, it raises a
\* ClientError with the given error message, or (a stub transport) it answers
\* with a status other than 200
ClientErrors == {"ThrottlingException", "AccessDeniedException"}
Faults == {"ok", "non200"} \cup ClientErrors

\* two more answers a stub transport can give, both with status 200: the items it
\* hands back hold a value that carries no type tag ("garbled"), or the page it
\* hands back is not the last one ("more": the answer has a LastEvaluatedKey)
ItemFaults == Faults \cup {"garbled"}
PageFaults == Faults \cup {"more"}
Succeeds(f) == f \in {"ok", "garbled", "more"}
Handed(item, f) == IF f = "garbled" THEN PyDict(Append(item[2], <<"Extra", NoTag>>)) ELSE item

ResponseMetadata(status) ==
    <<"ResponseMetadata", PyDict(<< <<"HTTPStatusCode", PyInt(status)>> >>)>>
Refused(f) ==
    IF f \in ClientErrors THEN Err("ClientError", f)
    ELSE Ok(PyDict(<<ResponseMetadata(500)>>))

Transport(name, f) == [e |-> "transport", by |-> "dynamodb_client", what |-> name, detail |-> f]

\* Key={"_id": {"S": partition_key}}
KeyOf(k) == PyDict(<< <<"_id", Wire("S", PyStr(k))>> >>)
IdOf(key) == Get(Get(key, "_id"), "S")[2]

\* dynamodb_client.get_item(TableName=table_name, Key=key)
client_get_item(tbl, key, f) ==
    [tbl |-> tbl,
     out |-> IF ~Succeeds(f) THEN Refused(f)
             ELSE IF tbl[IdOf(key)] = Absent THEN Ok(PyDict(<<ResponseMetadata(200)>>))
             ELSE Ok(PyDict(<< <<"Item", Handed(tbl[IdOf(key)], f)>>, ResponseMetadata(200) >>))]

\* dynamodb_client.put_item(TableName=table_name, Item=serialized_item)
client_put_item(tbl, item, f) ==
    IF ~Succeeds(f) THEN [tbl |-> tbl, out |-> Refused(f)]
    ELSE [tbl |-> [tbl EXCEPT ![IdOf(item)] = item],
          out |-> Ok(PyDict(<<ResponseMetadata(200)>>))]

\* dynamodb_client.batch_write_item(RequestItems={table_name: [{"PutRequest": ...}]});
\* the store is the set of user numbers, the requests are the users' wire items
client_batch_write_item(blk, requests, f) ==
    IF ~Succeeds(f) THEN [tbl |-> blk, out |-> Refused(f)]
    ELSE [tbl |-> blk \cup {Get(Get(requests[i], "_id"), "S")[2][2] : i \in 1..Len(requests)},
          out |-> Ok(PyDict(<< <<"UnprocessedItems", PyDict(<<>>)>>, ResponseMetadata(200) >>))]

\* a variant that sends ConditionExpression="attribute_exists(#id)" with the update
client_update_item_conditional(tbl, key, expression_attribute_names, expression_attribute_values, f) ==
    IF ~Succeeds(f) THEN [tbl |-> tbl, out |-> Refused(f)]
    ELSE IF tbl[IdOf(key)] = Absent
         THEN [tbl |-> tbl, out |-> Err("ClientError", "ConditionalCheckFailedException")]
    ELSE LET new == DictUpdate(tbl[IdOf(key)], expression_attribute_names[2][1][2][2],
                               expression_attribute_values[2][1][2])
         IN  [tbl |-> [tbl EXCEPT ![IdOf(key)] = new],
              out |-> Ok(PyDict(<< <<"Attributes", Handed(new, f)>>, ResponseMetadata(200) >>))]

\* dynamodb_client.update_item(..., UpdateExpression="SET #a = :v", ReturnValues="ALL_NEW")
\* with no ConditionExpression: DynamoDB edits the item, or adds a new item
\* made of the key and the attribute if there is none
client_update_item(tbl, key, expression_attribute_names, expression_attribute_values, f) ==
    IF ~Succeeds(f) THEN [tbl |-> tbl, out |-> Refused(f)]
    ELSE LET attr == expression_attribute_names[2][1][2][2]
             val == expression_attribute_values[2][1][2]
             old == tbl[IdOf(key)]
             new == IF old = Absent THEN PyDict(Append(key[2], <<attr, val>>))
                    ELSE DictUpdate(old, attr, val)
         IN  [tbl |-> [tbl EXCEPT ![IdOf(key)] = new],
              out |-> Ok(PyDict(<< <<"Attributes", Handed(new, f)>>, ResponseMetadata(200) >>))]

\* dynamodb_client.delete_item(TableName=table_name, Key=key, ReturnValues="ALL_OLD"):
\* deleting a key the store does not hold succeeds and returns no Attributes
client_delete_item(tbl, key, f) ==
    IF ~Succeeds(f) THEN [tbl |-> tbl, out |-> Refused(f)]
    ELSE IF tbl[IdOf(key)] = Absent
         THEN [tbl |-> tbl, out |-> Ok(PyDict(<<ResponseMetadata(200)>>))]
    ELSE [tbl |-> [tbl EXCEPT ![IdOf(key)] = Absent],
          out |-> Ok(PyDict(<< <<"Attributes", Handed(tbl[IdOf(key)], f)>>,
                               ResponseMetadata(200) >>))]

\* the items a key condition or filter "#id = :_id" selects
Matching(tbl, expression_attribute_values) ==
    LET k == Get(Get(expression_attribute_values, ":_id"), "S")[2]
    IN  IF tbl[k] = Absent THEN <<>> ELSE <<tbl[k]>>

\* the answer of a query or scan whose page is the last one, or is not
Page(items, last_key, f) ==
    Ok(PyDict(<< <<"Items", PyList([i \in 1..Len(items) |-> Handed(items[i], f)])>>,
                 <<"Count", PyInt(Len(items))>> >>
              \o (IF f = "more" THEN << <<"LastEvaluatedKey", last_key>> >> ELSE <<>>)
              \o <<ResponseMetadata(200)>>))

\* dynamodb_client.query(TableName=..., KeyConditionExpression="#id = :_id", ...)
client_query(tbl, expression_attribute_values, f) ==
    [tbl |-> tbl,
     out |-> IF ~Succeeds(f) THEN Refused(f)
             ELSE Page(Matching(tbl, expression_attribute_values),
                       PyDict(<< <<"_id", Get(expression_attribute_values, ":_id")>> >>), f)]

\* the attributes of item that the projection names
Project(item, projected) ==
    PyDict(SelectSeq(item[2], LAMBDA p : p[1] \in projected))

\* dynamodb_client.scan(TableName=..., FilterExpression="#id = :_id", ProjectionExpression=...)
client_scan(tbl, expression_attribute_values, projected, f) ==
    [tbl |-> tbl,
     out |-> IF ~Succeeds(f) THEN Refused(f)
             ELSE LET items == Matching(tbl, expression_attribute_values)
                  IN  Page([i \in 1..Len(items) |-> Project(items[i], projected)],
                           PyDict(<< <<"_id", Get(expression_attribute_values, ":_id")>> >>), f)]

\* dynamodb_client.describe_table(TableName=table_name): n is the item count the
\* store last reported in the table's metadata
client_describe_table(n, f) ==
    IF ~Succeeds(f) THEN Refused(f)
    ELSE Ok(PyDict(<< <<"Table", PyDict(<< <<"ItemCount", PyInt(n)>> >>)>>,
                      ResponseMetadata(200) >>))

(***************************************************************************)
(* The store operation facade.  Every operation yields what it leaves in   *)
(* the store (tbl), how it ends (out: the value returned or the exception  *)
(* raised) and the calls it made on its collaborators, in order (ev).      *)
(***************************************************************************)
\* how the caller passes logger= and tracer=; a tracer passed by position
\* reaches the operation but not the decorator, which reads kwargs only
LoggerArgs == {"kw_logger", "kw_none", "omitted"}
TracerArgs == {"kw_tracer", "positional", "omitted"}

\* tracer.capture_event(...) inside the operation, when a tracer was passed
capture_event(tracer, what) ==
    IF tracer # "omitted"
    THEN << [e |-> "capture_event", by |-> "tracer", what |-> what, detail |-> ""] >>
    ELSE <<>>

\* a variant whose except clause takes every exception, not ClientError alone
handle_client_error_any_exception(name, logger, tracer, body) ==
    IF body.out.ok THEN body
    ELSE [body EXCEPT !.ev = body.ev \o << [e |-> "log.error", by |-> "module logger",
                                           what |-> name, detail |-> body.out.val[2]] >>]

\* the decorator: log = kwargs.get("logger", logger); tracer = kwargs.get("tracer");
\* the body runs inside tracer.start_span when a tracer was passed; a ClientError
\* is logged with log.error, handed to tracer.capture_exception and raised again;
\* log is None when the caller passed logger=None, and None has no .error
handle_client_error(name, logger, tracer, body) ==
    LET span == IF tracer = "kw_tracer"
                THEN << [e |-> "start_span", by |-> "tracer", what |-> name, detail |-> ""] >>
                ELSE <<>>
        log == IF logger = "kw_logger" THEN "supplied logger"
               ELSE IF logger = "kw_none" THEN "None" ELSE "module logger"
    IN  IF ~body.out.ok /\ body.out.val[1] = "ClientError"
        THEN IF log = "None"
             THEN [body EXCEPT
                     !.out = Err("AttributeError", "'NoneType' object has no attribute 'error'"),
                     !.ev = span \o body.ev]
             ELSE [body EXCEPT
                     !.ev = span \o body.ev
                            \o << [e |-> "log.error", by |-> log, what |-> name,
                                   detail |-> body.out.val[2]] >>
                            \o (IF tracer = "kw_tracer"
                                THEN << [e |-> "capture_exception", by |-> "tracer",
                                         what |-> name, detail |-> body.out.val[2]] >>
                                ELSE <<>>)]
        ELSE [body EXCEPT !.ev = span \o body.ev]

\* a slip that answers None for a key the store does not hold
get_item_none_if_absent(tbl, key, logger, tracer, f) ==
    LET r == client_get_item(tbl, key, f)
    IN  handle_client_error("get_item", logger, tracer,
          [tbl |-> r.tbl,
           ev |-> capture_event(tracer, "Fetching DynamoDB item") \o <<Transport("get_item", f)>>,
           out |-> IF ~r.out.ok THEN r.out
                   ELSE IF Has(r.out.val, "Item") THEN deserialize_item(Get(r.out.val, "Item"))
                   ELSE Ok(PyNone)])

get_item(tbl, key, logger, tracer, f) ==
    LET r == client_get_item(tbl, key, f)
    IN  handle_client_error("get_item", logger, tracer,
          [tbl |-> r.tbl,
           ev |-> capture_event(tracer, "Fetching DynamoDB item") \o <<Transport("get_item", f)>>,
           out |-> IF ~r.out.ok THEN r.out
                   ELSE IF Has(r.out.val, "Item") THEN deserialize_item(Get(r.out.val, "Item"))
                   ELSE Ok(PyDict(<<>>))])

put_item(tbl, item, logger, tracer, f) ==
    LET serialized_item == serialize_item(item)
        r == client_put_item(tbl, serialized_item.val, f)
    IN  handle_client_error("put_item", logger, tracer,
          IF ~serialized_item.ok
          THEN [tbl |-> tbl, ev |-> capture_event(tracer, "Putting DynamoDB item"),
                out |-> serialized_item]
          ELSE [tbl |-> r.tbl,
                ev |-> capture_event(tracer, "Putting DynamoDB item")
                       \o <<Transport("put_item", f)>>,
                out |-> r.out])

\* here tbl is the part of the store that holds the generated users
batch_write_item(tbl, items, logger, tracer, f) ==
    LET rs == [i \in 1..Len(items) |-> serialize_item(items[i])]
        r == client_batch_write_item(tbl, [i \in 1..Len(items) |-> rs[i].val], f)
    IN  handle_client_error("batch_write_item", logger, tracer,
          IF ~AllOk(rs)
          THEN [tbl |-> tbl, ev |-> capture_event(tracer, "Updating DynamoDB item"),
                out |-> FirstBad(rs)]
          ELSE [tbl |-> r.tbl,
                ev |-> capture_event(tracer, "Updating DynamoDB item")
                       \o <<Transport("batch_write_item", f)>>,
                out |-> r.out])

\* a slip that reads response.get("Attributes", {}) and so never misses the key
WithAttributes_or_empty(response, name) ==
    LET plain == deserialize_item(IF Has(response, "Attributes")
                                  THEN Get(response, "Attributes") ELSE PyDict(<<>>))
    IN  IF plain.ok THEN Ok(DictUpdate(response, name, plain.val)) ELSE plain

\* response[name] = deserialize_item(response["Attributes"]); return response
WithAttributes(response, name) ==
    IF ~Has(response, "Attributes") THEN Err("KeyError", "Attributes")
    ELSE LET plain == deserialize_item(Get(response, "Attributes"))
         IN  IF plain.ok THEN Ok(DictUpdate(response, name, plain.val)) ELSE plain

update_item(tbl, key, expression_attribute_names, expression_attribute_values, logger, tracer, f) ==
    LET r == client_update_item(tbl, key, expression_attribute_names,
                                expression_attribute_values, f)
    IN  handle_client_error("update_item", logger, tracer,
          [tbl |-> r.tbl,
           ev |-> capture_event(tracer, "Updating DynamoDB item")
                  \o <<Transport("update_item", f)>>,
           out |-> IF ~r.out.ok THEN r.out ELSE WithAttributes(r.out.val, "updatedItem")])

\* a variant that reports to the tracer once the transport call has returned
delete_item_traces_after(tbl, key, logger, tracer, f) ==
    LET r == client_delete_item(tbl, key, f)
    IN  handle_client_error("delete_item", logger, tracer,
          [tbl |-> r.tbl,
           ev |-> <<Transport("delete_item", f)>>
                  \o (IF r.out.ok THEN capture_event(tracer, "Deleting DynamoDB item") ELSE <<>>),
           out |-> IF ~r.out.ok THEN r.out ELSE WithAttributes(r.out.val, "deletedItem")])

delete_item(tbl, key, logger, tracer, f) ==
    LET r == client_delete_item(tbl, key, f)
    IN  handle_client_error("delete_item", logger, tracer,
          [tbl |-> r.tbl,
           ev |-> capture_event(tracer, "Deleting DynamoDB item")
                  \o <<Transport("delete_item", f)>>,
           out |-> IF ~r.out.ok THEN r.out ELSE WithAttributes(r.out.val, "deletedItem")])

\* response["items"] = [deserialize_item(item) for item in response.get("Items", [])]
WithItems(response) ==
    LET found == IF Has(response, "Items") THEN Get(response, "Items")[2] ELSE <<>>
        rs == [i \in 1..Len(found) |-> deserialize_item(found[i])]
    IN  IF AllOk(rs)
        THEN Ok(DictUpdate(response, "items", PyList([i \in 1..Len(found) |-> rs[i].val])))
        ELSE FirstBad(rs)

\* a variant that asks for the next page when the answer has a LastEvaluatedKey
query_items_next_page(tbl, expression_attribute_values, logger, tracer, f) ==
    LET r == client_query(tbl, expression_attribute_values, f)
    IN  handle_client_error("query_items", logger, tracer,
          [tbl |-> r.tbl,
           ev |-> capture_event(tracer, "Executing DynamoDB query")
                  \o <<Transport("query", f)>>
                  \o (IF r.out.ok /\ Has(r.out.val, "LastEvaluatedKey")
                      THEN <<Transport("query", "ok")>> ELSE <<>>),
           out |-> IF ~r.out.ok THEN r.out ELSE WithItems(r.out.val)])

query_items(tbl, expression_attribute_values, logger, tracer, f) ==
    LET r == client_query(tbl, expression_attribute_values, f)
    IN  handle_client_error("query_items", logger, tracer,
          [tbl |-> r.tbl,
           ev |-> capture_event(tracer, "Executing DynamoDB query")
                  \o <<Transport("query", f)>>,
           out |-> IF ~r.out.ok THEN r.out ELSE WithItems(r.out.val)])

scan_items(tbl, expression_attribute_values, projected, logger, tracer, f) ==
    LET r == client_scan(tbl, expression_attribute_values, projected, f)
    IN  handle_client_error("scan_items", logger, tracer,
          [tbl |-> r.tbl,
           ev |-> capture_event(tracer, "Executing DynamoDB scan")
                  \o <<Transport("scan", f)>>,
           out |-> IF ~r.out.ok THEN r.out ELSE WithItems(r.out.val)])

\* despite its name it reads one page: [deserialize_item(x, tracer) for x in ...]
query_all_items(tbl, expression_attribute_values, logger, tracer, f) ==
    LET r == client_query(tbl, expression_attribute_values, f)
        found == IF r.out.ok THEN WithItems(r.out.val) ELSE r.out
    IN  handle_client_error("query_all_items", logger, tracer,
          [tbl |-> r.tbl,
           ev |-> capture_event(tracer, "Executing DynamoDB query")
                  \o <<Transport("query", f)>>,
           out |-> IF found.ok THEN Ok(Get(found.val, "items")) ELSE found])

\* tbl is handed through untouched: describe_table reads the metadata only
get_item_count(tbl, n, logger, tracer, f) ==
    handle_client_error("get_item_count", logger, tracer,
      [tbl |-> tbl,
       ev |-> capture_event(tracer, "Counting DynamoDB items")
              \o <<Transport("describe_table", f)>>,
       out |-> client_describe_table(n, f)])

(***************************************************************************)
(* Inputs of the codec                                                     *)
(***************************************************************************)
AttrNames == {"Name", "Age"}

SeqsUpTo(S, n) == UNION {[1..k -> S] : k \in 0..n}

\* the dicts of at most n entries with keys in K (each at most once) and values in S
DictsUpTo(K, S, n) ==
    LET keys == {q \in SeqsUpTo(K, n) : \A i, j \in 1..Len(q) : q[i] = q[j] => i = j}
    IN  UNION {{PyDict([i \in 1..Len(ks) |-> <<ks[i], vs[i]>>]) : vs \in [1..Len(ks) -> S]}
                 : ks \in keys}

PlainScalars ==
    {PyNone, PyBool(TRUE), PyBool(FALSE), PyInt(0), PyInt(30), PyStr("Ana"), PyStr(""),
     PyFloat("1.5"), BigInt}
PlainInner ==
    {PyNone, PyInt(30), PyStr("Ana"), PyFloat("1.5"), PyList(<<PyInt(30), PyStr("x")>>)}
PlainValues ==
    PlainScalars \cup {PyList(s) : s \in SeqsUpTo(PlainInner, MaxLen)}
                 \cup DictsUpTo(AttrNames, PlainInner, MaxLen)
\* the items of at most two attributes, one of them with any of the values of
\* Big, the other with one of Small
ItemsOf(Big, Small) ==
    LET pairs == {q \in AttrNames \X AttrNames : q[1] # q[2]}
    IN  {PyDict(<<>>)}
          \cup {PyDict(<< <<k, v>> >>) : k \in AttrNames, v \in Big}
          \cup {PyDict(<< <<q[1], v>>, <<q[2], s>> >>) : q \in pairs, v \in Big, s \in Small}
          \cup {PyDict(<< <<q[1], s>>, <<q[2], v>> >>) : q \in pairs, v \in Big, s \in Small}

PlainItems == ItemsOf(PlainValues, PlainScalars)

WireScalars ==
    {Wire("S", PyStr("Ana")), Wire("N", PyNumStr(30)), Wire("BOOL", PyBool(TRUE)),
     Wire("NULL", PyBool(TRUE))}
\* wire values carrying two tags
TwoTags == {PyDict(<<a[2][1], b[2][1]>>) : a, b \in WireScalars} \ WireScalars
WireInner ==
    {Wire("S", PyStr("Ana")), Wire("N", PyNumStr(30)), NoTag,
     PyDict(<< <<"S", PyStr("Ana")>>, <<"N", PyNumStr(30)>> >>),
     Wire("X", PyStr("Ana"))}
WireValues ==
    WireScalars \cup TwoTags \cup {NoTag, Wire("X", PyStr("Ana"))}
        \cup {Wire("L", PyList(s)) : s \in SeqsUpTo(WireInner, MaxLen)}
        \cup {Wire("M", d) : d \in DictsUpTo(AttrNames, WireInner, MaxLen)}
        \cup {PyDict(<< <<"S", PyStr("Ana")>>, <<"L", PyList(<<NoTag>>)>> >>),
              PyDict(<< <<"L", PyList(<<NoTag>>)>>, <<"S", PyStr("Ana")>> >>)}
WireOuter ==
    WireScalars \cup {NoTag, PyDict(<< <<"S", PyStr("Ana")>>, <<"N", PyNumStr(30)>> >>)}
WireItems == ItemsOf(WireValues, WireOuter)

(***************************************************************************)
(* The codec on its own                                                    *)
(***************************************************************************)
NoRun == [kind |-> "idle"]

\* the codec is handed a plain item to take through both directions, or a wire
\* item to deserialize
InitCodec ==
    /\ table = [k \in Keys |-> Absent]
    /\ bulk = {}
    /\ \/ \E x \in PlainItems :
             run = [kind |-> "codec", op |-> "plain input", arg |-> x, ser |-> Ok(x),
                    out |-> Ok(x)]
       \/ \E w \in WireItems :
             run = [kind |-> "codec", op |-> "wire input", arg |-> w, ser |-> Ok(w),
                    out |-> Ok(w)]

\* deserialize_item(serialize_item(x))
CodecRoundTrip ==
    /\ run.kind = "codec" /\ run.op = "plain input"
    /\ LET ser == serialize_item(run.arg)
       IN  run' = [run EXCEPT !.op = "roundtrip", !.ser = ser,
                              !.out = IF ser.ok THEN deserialize_item(ser.val) ELSE ser]
    /\ UNCHANGED <<table, bulk>>

\* deserialize_item(w)
CodecDeserialize ==
    /\ run.kind = "codec" /\ run.op = "wire input"
    /\ run' = [run EXCEPT !.op = "deserialize_item", !.out = deserialize_item(run.arg)]
    /\ UNCHANGED <<table, bulk>>

NextCodec == CodecRoundTrip \/ CodecDeserialize

SpecCodec == InitCodec /\ [][NextCodec]_vars

(***************************************************************************)
(* Claims about the codec                                                  *)
(***************************************************************************)
RoundTripDone == run.kind = "codec" /\ run.op = "roundtrip"
DeserializeDone == run.kind = "codec" /\ run.op = "deserialize_item"

\* every number in x is an int or a bool that DynamoDB's number context takes
\* exactly (at most 38 significant digits): no float, no longer int
RECURSIVE ExactNumbers(_)
ExactNumbers(x) ==
    IF x[1] \in {"float", "bigint"} THEN FALSE
    ELSE IF x[1] = "list" THEN \A i \in 1..Len(x[2]) : ExactNumbers(x[2][i])
    ELSE IF x[1] = "dict" THEN \A i \in 1..Len(x[2]) : ExactNumbers(x[2][i][2])
    ELSE TRUE

\* C6 as stated: for every plain item x of the value space (strings, numbers,
\* booleans, null, lists, nested mappings) deserialize_item(serialize_item(x))
\* is returned and equals x.
C6_RoundTripAllNumbers ==
    RoundTripDone => run.out.ok /\ PyEq(run.out.val, run.arg)

\* C6 amended: for every plain item x whose numbers are integers of at most 38
\* significant digits (no floats), deserialize_item(serialize_item(x)) is
\* returned and equals x under Python's ==, the integers coming back as Decimal.
C6_RoundTripExactNumbers ==
    (RoundTripDone /\ ExactNumbers(run.arg)) => run.out.ok /\ PyEq(run.out.val, run.arg)

\* a round trip of an item holding an integer next to a nested list or mapping
C6_Witness ==
    /\ RoundTripDone /\ ExactNumbers(run.arg)
    /\ Has(run.arg, "Age") /\ Get(run.arg, "Age") = PyInt(30)
    /\ Has(run.arg, "Name") /\ Get(run.arg, "Name")[1] \in {"list", "dict"}
    /\ Len(Get(run.arg, "Name")[2]) = 2
    /\ run.out.ok /\ Get(run.out.val, "Age") = PyDecimal(30)

\* a wire value with zero or several tags, at any depth, under any tag
RECURSIVE BadTagCount(_)
BadTagCount(w) ==
    \/ Len(w[2]) # 1
    \/ \E i \in 1..Len(w[2]) :
          \/ w[2][i][1] = "L" /\ \E j \in 1..Len(w[2][i][2][2]) : BadTagCount(w[2][i][2][2][j])
          \/ w[2][i][1] = "M" /\ \E j \in 1..Len(w[2][i][2][2]) : BadTagCount(w[2][i][2][2][j][2])

\* a wire value with no tag at a place the first tags lead to
RECURSIVE ZeroTagReached(_)
ZeroTagReached(w) ==
    \/ w[2] = <<>>
    \/ /\ w[2] # <<>>
       /\ \/ w[2][1][1] = "L" /\ \E j \in 1..Len(w[2][1][2][2]) : ZeroTagReached(w[2][1][2][2][j])
          \/ w[2][1][1] = "M" /\ \E j \in 1..Len(w[2][1][2][2]) : ZeroTagReached(w[2][1][2][2][j][2])

\* a wire value whose first tag is a scalar one, whatever tags follow it
ScalarFirst(w) == w[2] # <<>> /\ w[2][1][1] \in {"S", "N", "BOOL", "NULL"}
PlainOfFirst(w) ==
    IF w[2][1][1] = "NULL" THEN PyNone
    ELSE IF w[2][1][1] = "N" THEN PyDecimal(w[2][1][2][2])
    ELSE w[2][1][2]

\* C7 as stated: deserialize_item rejects every wire item that holds, at any
\* depth, a wire value with zero tags or with more than one tag.
C7_MalformedRejected ==
    (DeserializeDone /\ \E i \in 1..Len(run.arg[2]) : BadTagCount(run.arg[2][i][2]))
        => ~run.out.ok

\* C7 amended: deserialize_item raises TypeError for a wire value with zero tags
\* at a place its first tags lead to; a wire value with more than one tag is not
\* rejected: it is deserialized by the first tag of the mapping and the other
\* tags, with all they hold, are ignored.
C7_ZeroTagRejectedFirstTagTaken ==
    DeserializeDone =>
        /\ (\E i \in 1..Len(run.arg[2]) : ZeroTagReached(run.arg[2][i][2]))
              => (~run.out.ok /\ run.out.val[1] = "TypeError")
        /\ (\A i \in 1..Len(run.arg[2]) : ScalarFirst(run.arg[2][i][2]))
              => /\ run.out.ok
                 /\ Len(run.out.val[2]) = Len(run.arg[2])
                 /\ \A i \in 1..Len(run.arg[2]) :
                       run.out.val[2][i] = <<run.arg[2][i][1], PlainOfFirst(run.arg[2][i][2])>>

\* a value tagged S and L, the ignored L holding a value with no tag, comes back
\* as the string, next to an attribute with a single tag
C7_Witness ==
    /\ DeserializeDone
    /\ run.arg = PyDict(<< <<"Name", PyDict(<< <<"S", PyStr("Ana")>>,
                                               <<"L", PyList(<<NoTag>>)>> >>)>>,
                           <<"Age", Wire("N", PyNumStr(30))>> >>)
    /\ run.out = Ok(PyDict(<< <<"Name", PyStr("Ana")>>, <<"Age", PyDecimal(30)>> >>))

(***************************************************************************)
(* The facade operations called directly                                   *)
(***************************************************************************)
BatchSize == 25

\* the values a request may carry for "name": a string, null, a JSON fraction
EventNames == {PyStr(n) : n \in Names} \cup {PyNone, PyFloat("1.5")}

\* the user record the putItem operation builds for the generated id k
UserItem(k, name) ==
    PyDict(<< <<"_id", PyStr(k)>>, <<"Name", name>>, <<"Address", PyNone>>,
              <<"Email", PyNone>>, <<"Phone", PyNone>> >>)

\* the n-th user the batchWriteItem operation generates with uuid4 and Faker
FakeUser(n) ==
    PyDict(<< <<"_id", PyFake("_id", n)>>, <<"Name", PyFake("Name", n)>>,
              <<"Address", PyFake("Address", n)>>, <<"Email", PyFake("Email", n)>>,
              <<"Phone", PyFake("Phone", n)>> >>)
FakeUsers(n) == [i \in 1..n |-> FakeUser(i)]

\* the counts a describe_table stub reports
ItemCounts == {0, 1, MaxUsers}

\* the userCount values of the batchWriteItem requests
UserCounts == {0, 1, BatchSize, MaxUsers}

\* nothing is under way: the caller is free to make its next call
Idle == run.kind = "idle"
\* a call has returned or raised, or a handler invocation has ended
Finished == IF run.kind = "handler" THEN run.pc = "done" ELSE run.kind = "call"

Call(op, k, arg, logger, tracer, f, r) ==
    [kind |-> "call", op |-> op, key |-> k, pre |-> table,
     arg |-> arg, logger |-> logger, tracer |-> tracer, fault |-> f,
     out |-> r.out, ev |-> r.ev]

Init ==
    /\ table = [k \in Keys |-> Absent]
    /\ bulk = {}
    /\ run = NoRun

FacadeGetItem ==
    \E k \in Keys, lg \in LoggerArgs, tr \in TracerArgs, f \in Faults :
        LET r == get_item(table, KeyOf(k), lg, tr, f)
        IN  /\ Idle
            /\ run' = Call("get_item", k, PyNone, lg, tr, f, r)
            /\ table' = r.tbl
            /\ UNCHANGED bulk

FacadePutItem ==
    \E k \in Keys, name \in EventNames, lg \in LoggerArgs, tr \in TracerArgs, f \in Faults :
        LET r == put_item(table, UserItem(k, name), lg, tr, f)
        IN  /\ Idle
            /\ run' = Call("put_item", k, UserItem(k, name), lg, tr, f, r)
            /\ table' = r.tbl
            /\ UNCHANGED bulk

FacadeBatchWriteItem ==
    \E n \in {1, BatchSize}, lg \in LoggerArgs, tr \in TracerArgs, f \in Faults :
        LET r == batch_write_item(bulk, FakeUsers(n), lg, tr, f)
        IN  /\ Idle
            /\ run' = Call("batch_write_item", "-", PyInt(n), lg, tr, f, r)
            /\ bulk' = r.tbl
            /\ UNCHANGED table

FacadeUpdateItem ==
    \E k \in Keys, name \in Names, lg \in LoggerArgs, tr \in TracerArgs, f \in Faults :
        LET r == update_item(table, KeyOf(k), PyDict(<< <<"#Name", PyStr("Name")>> >>),
                             PyDict(<< <<":Name", Wire("S", PyStr(name))>> >>), lg, tr, f)
        IN  /\ Idle
            /\ run' = Call("update_item", k, PyStr(name), lg, tr, f, r)
            /\ table' = r.tbl
            /\ UNCHANGED bulk

FacadeDeleteItem ==
    \E k \in Keys, lg \in LoggerArgs, tr \in TracerArgs, f \in Faults :
        LET r == delete_item(table, KeyOf(k), lg, tr, f)
        IN  /\ Idle
            /\ run' = Call("delete_item", k, PyNone, lg, tr, f, r)
            /\ table' = r.tbl
            /\ UNCHANGED bulk

FacadeQueryItems ==
    \E k \in Keys, lg \in LoggerArgs, tr \in TracerArgs, f \in PageFaults :
        LET r == query_items(table, PyDict(<< <<":_id", Wire("S", PyStr(k))>> >>), lg, tr, f)
        IN  /\ Idle
            /\ run' = Call("query_items", k, PyNone, lg, tr, f, r)
            /\ table' = r.tbl
            /\ UNCHANGED bulk

FacadeQueryAllItems ==
    \E k \in Keys, lg \in LoggerArgs, tr \in TracerArgs, f \in PageFaults :
        LET r == query_all_items(table, PyDict(<< <<":_id", Wire("S", PyStr(k))>> >>), lg, tr, f)
        IN  /\ Idle
            /\ run' = Call("query_all_items", k, PyNone, lg, tr, f, r)
            /\ table' = r.tbl
            /\ UNCHANGED bulk

FacadeScanItems ==
    \E k \in Keys, lg \in LoggerArgs, tr \in TracerArgs, f \in PageFaults :
        LET r == scan_items(table, PyDict(<< <<":_id", Wire("S", PyStr(k))>> >>),
                            {"_id", "Name", "Email", "Address", "Phone"}, lg, tr, f)
        IN  /\ Idle
            /\ run' = Call("scan_items", k, PyNone, lg, tr, f, r)
            /\ table' = r.tbl
            /\ UNCHANGED bulk

FacadeGetItemCount ==
    \E n \in ItemCounts, lg \in LoggerArgs, tr \in TracerArgs, f \in Faults :
        LET r == get_item_count(table, n, lg, tr, f)
        IN  /\ Idle
            /\ run' = Call("get_item_count", "-", PyInt(n), lg, tr, f, r)
            /\ table' = r.tbl
            /\ UNCHANGED bulk

(***************************************************************************)
(* lambda_handler of add-users                                             *)
(***************************************************************************)
Envelope(status, body) ==
    PyDict(<< <<"statusCode", PyInt(status)>>, <<"isBase64Encoded", PyBool(FALSE)>>,
              <<"body", PyDict(body)>> >>)

\* Python's truth value of x
Truthy(x) ==
    IF x[1] \in {"dict", "list"} THEN x[2] # <<>>
    ELSE IF x[1] = "NoneType" THEN FALSE
    ELSE IF x[1] = "str" THEN x[2] # ""
    ELSE IF x[1] = "bool" THEN x[2]
    ELSE IF x[1] \in {"int", "Decimal"} THEN x[2] # 0
    ELSE TRUE

\* response["ResponseMetadata"]["HTTPStatusCode"]
StatusOf(response) ==
    IF Has(response, "ResponseMetadata")
    THEN Ok(Get(Get(response, "ResponseMetadata"), "HTTPStatusCode")[2])
    ELSE Err("KeyError", "ResponseMetadata")

\* status_code = ...; if status_code != 200: status_code = 400
Checked(status) == IF status # 200 THEN 400 ELSE status

\* a variant that yields the full chunks only
batch_list_dicts_full_chunks(items_list, batch_size) ==
    [j \in 1..(Len(items_list) \div batch_size) |->
        SubSeq(items_list, (j - 1) * batch_size + 1, j * batch_size)]

\* batch_list_dicts: items_list[i : i + batch_size] for i in range(0, len, batch_size)
batch_list_dicts(items_list, batch_size) ==
    [j \in 1..((Len(items_list) + batch_size - 1) \div batch_size) |->
        SubSeq(items_list, (j - 1) * batch_size + 1,
               IF j * batch_size < Len(items_list) THEN j * batch_size ELSE Len(items_list))]

\* the handler's state: the operation, where it stands (pc), the request's id,
\* the chunks still to send and those handed to batch_write_item, the users
\* written so far, the collaborator calls made, and how the invocation ended
Handler(op, pc, id, userCount, batches, sent, users, ev, out) ==
    [kind |-> "handler", op |-> op, pc |-> pc, id |-> id, userCount |-> userCount,
     batches |-> batches, sent |-> sent, users |-> users, pre |-> table, ev |-> ev,
     out |-> out]

Ended(op, id, ev, out) == Handler(op, "done", id, 0, <<>>, <<>>, <<>>, ev, out)

\* the values of event.get("operation") that name none of the eight operations;
\* "None" stands for an event without the field (or with null in it)
NoOperation == {"None", "listItems", "", "putitem"}

\* a variant that takes every name it does not know for a missing one
HandlerRejectsAsMissing ==
    \E operation \in NoOperation :
        /\ Idle
        /\ run' = Ended(operation, "-", <<>>,
                 Ok(Envelope(400, << <<"message", PyStr("Missing operation parameter")>> >>)))
        /\ UNCHANGED <<table, bulk>>

\* event.get("operation") is None, or names none of the eight operations
HandlerRejects ==
    \E operation \in NoOperation :
        /\ Idle
        /\ run' = Ended(operation, "-", <<>>,
                 Ok(Envelope(400, << <<"message",
                       PyStr(IF operation = "None" THEN "Missing operation parameter"
                             ELSE "Invalid operation parameter")>> >>)))
        /\ UNCHANGED <<table, bulk>>

HandlerPutItem ==
    \E k \in Keys, name \in EventNames, f \in Faults :
        LET r == put_item(table, UserItem(k, name), "kw_logger", "omitted", f)
            status == StatusOf(r.out.val)
        IN  /\ Idle
            /\ table[k] = Absent      \* str(uuid.uuid4()) is a fresh id
            /\ run' = Ended("putItem", k, r.ev,
                     IF ~r.out.ok THEN r.out
                     ELSE IF ~status.ok THEN status
                     ELSE Ok(Envelope(Checked(status.val), << <<"message",
                            PyStr(IF status.val # 200
                                  THEN "Failed to add item, see CloudWatch logs for details."
                                  ELSE "Item added successfully")>> >>)))
            /\ table' = r.tbl
            /\ UNCHANGED bulk

HandlerBatchStart ==
    \E n \in UserCounts :
        LET users_batches == batch_list_dicts(FakeUsers(n), BatchSize)
        IN  /\ Idle
            /\ run' = IF users_batches = <<>>
                      THEN Handler("batchWriteItem", "done", "-", n, <<>>, <<>>, <<>>, <<>>,
                                   Err("UnboundLocalError", "status_code"))
                      ELSE Handler("batchWriteItem", "batch", "-", n, users_batches, <<>>,
                                   <<>>, <<>>, Ok(PyNone))
            /\ UNCHANGED <<table, bulk>>

BatchBody(n, users) == << <<"userCount", PyInt(n)>>, <<"usersWritten", PyList(users)>> >>

\* a slip that goes on to the next chunk after a chunk was refused
HandlerBatchChunkGoesOn ==
    \E f \in Faults :
        LET users_batch == Head(run.batches)
            r == batch_write_item(bulk, users_batch, "kw_logger", "omitted", f)
            status == StatusOf(r.out.val)
            last == Tail(run.batches) = <<>>
            users == IF r.out.ok /\ status.ok /\ status.val = 200
                     THEN run.users \o users_batch ELSE run.users
        IN  /\ run.kind = "handler" /\ run.pc = "batch"
            /\ run' = [run EXCEPT
                         !.sent = Append(run.sent, users_batch),
                         !.ev = run.ev \o r.ev,
                         !.batches = Tail(run.batches),
                         !.users = users,
                         !.pc = IF last THEN "done" ELSE "batch",
                         !.out = IF last
                                 THEN Ok(Envelope(200, BatchBody(run.userCount, users)))
                                 ELSE run.out]
            /\ bulk' = r.tbl
            /\ UNCHANGED table

\* one turn of "for users_batch in users_batches", and the return after the loop
HandlerBatchChunk ==
    \E f \in Faults :
        LET users_batch == Head(run.batches)
            r == batch_write_item(bulk, users_batch, "kw_logger", "omitted", f)
            status == StatusOf(r.out.val)
            sent == Append(run.sent, users_batch)
            ev == run.ev \o r.ev
        IN  /\ run.kind = "handler" /\ run.pc = "batch"
            /\ run' =
                 IF ~r.out.ok
                 THEN [run EXCEPT !.pc = "done", !.sent = sent, !.ev = ev, !.out = r.out]
                 ELSE IF ~status.ok
                 THEN [run EXCEPT !.pc = "done", !.sent = sent, !.ev = ev, !.out = status]
                 ELSE IF status.val # 200
                 THEN [run EXCEPT !.pc = "done", !.sent = sent, !.ev = ev,
                          !.out = Ok(Envelope(400, BatchBody(run.userCount, run.users)))]
                 ELSE IF Tail(run.batches) = <<>>
                 THEN [run EXCEPT !.pc = "done", !.sent = sent, !.ev = ev,
                          !.batches = <<>>, !.users = run.users \o users_batch,
                          !.out = Ok(Envelope(status.val,
                                     BatchBody(run.userCount, run.users \o users_batch)))]
                 ELSE [run EXCEPT !.sent = sent, !.ev = ev, !.batches = Tail(run.batches),
                          !.users = run.users \o users_batch]
            /\ bulk' = r.tbl
            /\ UNCHANGED table

HandlerGetItem ==
    \E k \in Keys, f \in Faults :
        LET r == get_item(table, KeyOf(k), "kw_logger", "omitted", f)
            status == StatusOf(r.out.val)
        IN  /\ Idle
            /\ run' = Ended("getItem", k, r.ev,
                     IF ~r.out.ok THEN r.out
                     ELSE IF ~status.ok THEN status
                     ELSE Ok(Envelope(Checked(status.val), << <<"item",
                            IF Truthy(r.out.val) THEN r.out.val
                            ELSE PyStr("No matching item found")>> >>)))
            /\ table' = r.tbl
            /\ UNCHANGED bulk

\* get_users of the get-users handler: get_item, then the envelope with
\* status_code = 200 whatever the answer
GetUsers ==
    \E k \in Keys, f \in Faults :
        LET r == get_item(table, KeyOf(k), "kw_logger", "omitted", f)
        IN  /\ Idle
            /\ run' = Ended("get_users", k, r.ev,
                     IF ~r.out.ok THEN r.out
                     ELSE Ok(Envelope(Checked(200), << <<"item",
                            IF Truthy(r.out.val) THEN r.out.val
                            ELSE PyStr("No matching item found")>> >>)))
            /\ table' = r.tbl
            /\ UNCHANGED bulk

NotFound == Ok(Envelope(400, << <<"message", PyStr("No matching item found")>> >>))

\* the existence check of updateItem and deleteItem: get_item, "if not response"
HandlerCheck ==
    \E operation \in {"updateItem", "deleteItem"}, k \in Keys, f \in Faults :
        LET r == get_item(table, KeyOf(k), "kw_logger", "omitted", f)
        IN  /\ Idle
            /\ run' = IF ~r.out.ok THEN Ended(operation, k, r.ev, r.out)
                      ELSE IF ~Truthy(r.out.val) THEN Ended(operation, k, r.ev, NotFound)
                      ELSE Handler(operation, "write", k, 0, <<>>, <<>>, <<>>, r.ev, Ok(PyNone))
            /\ table' = r.tbl
            /\ UNCHANGED bulk

\* name = event.get("name", "NA"), then update_item and the answer
HandlerUpdateItem ==
    \E name \in Names \cup {"NA"}, f \in Faults :
        LET r == update_item(table, KeyOf(run.id), PyDict(<< <<"#Name", PyStr("Name")>> >>),
                             PyDict(<< <<":Name", Wire("S", PyStr(name))>> >>),
                             "kw_logger", "omitted", f)
            status == StatusOf(r.out.val)
        IN  /\ run.kind = "handler" /\ run.pc = "write" /\ run.op = "updateItem"
            /\ run' = [run EXCEPT !.pc = "done", !.ev = run.ev \o r.ev,
                         !.out = IF ~r.out.ok THEN r.out
                                 ELSE IF ~status.ok THEN status
                                 ELSE Ok(Envelope(Checked(status.val),
                                    << <<"message", PyStr(IF status.val # 200
                                          THEN "Failed to update item, see CloudWatch logs for details."
                                          ELSE "Item updated successfully")>>,
                                       <<"updatedItem", Get(r.out.val, "updatedItem")>> >>))]
            /\ table' = r.tbl
            /\ UNCHANGED bulk

HandlerDeleteItem ==
    \E f \in Faults :
        LET r == delete_item(table, KeyOf(run.id), "kw_logger", "omitted", f)
            status == StatusOf(r.out.val)
        IN  /\ run.kind = "handler" /\ run.pc = "write" /\ run.op = "deleteItem"
            /\ run' = [run EXCEPT !.pc = "done", !.ev = run.ev \o r.ev,
                         !.out = IF ~r.out.ok THEN r.out
                                 ELSE IF ~status.ok THEN status
                                 ELSE Ok(Envelope(Checked(status.val),
                                    << <<"message", PyStr(IF status.val # 200
                                          THEN "Failed to delete item, see CloudWatch logs for details."
                                          ELSE "Item deleted successfully")>>,
                                       <<"deletedItem", Get(r.out.val, "deletedItem")>> >>))]
            /\ table' = r.tbl
            /\ UNCHANGED bulk

HandlerQueryItems ==
    \E k \in Keys, f \in Faults :
        LET r == query_items(table, PyDict(<< <<":_id", Wire("S", PyStr(k))>> >>),
                             "kw_logger", "omitted", f)
            status == StatusOf(r.out.val)
        IN  /\ Idle
            /\ run' = Ended("queryItems", k, r.ev,
                     IF ~r.out.ok THEN r.out
                     ELSE IF ~status.ok THEN status
                     ELSE Ok(Envelope(status.val, << <<"items", Get(r.out.val, "items")>> >>)))
            /\ table' = r.tbl
            /\ UNCHANGED bulk

HandlerScanItems ==
    \E k \in Keys, f \in Faults :
        LET r == scan_items(table, PyDict(<< <<":_id", Wire("S", PyStr(k))>> >>),
                            {"_id", "Name", "Email", "Address", "Phone"},
                            "kw_logger", "omitted", f)
            status == StatusOf(r.out.val)
        IN  /\ Idle
            /\ run' = Ended("scanItems", k, r.ev,
                     IF ~r.out.ok THEN r.out
                     ELSE IF ~status.ok THEN status
                     ELSE Ok(Envelope(Checked(status.val), << <<"items",
                            IF status.val # 200 THEN PyStr("No items found.")
                            ELSE Get(r.out.val, "items")>> >>)))
            /\ table' = r.tbl
            /\ UNCHANGED bulk

HandlerItemCount ==
    \E n \in ItemCounts, f \in Faults :
        LET r == get_item_count(table, n, "kw_logger", "omitted", f)
            status == StatusOf(r.out.val)
        IN  /\ Idle
            /\ run' = Ended("itemCount", "-", r.ev,
                     IF ~r.out.ok THEN r.out
                     ELSE IF ~status.ok THEN status
                     ELSE Ok(Envelope(Checked(status.val), << <<"itemCount",
                            IF status.val # 200
                            THEN PyStr("Failed to get item count, see CloudWatch logs for details.")
                            ELSE Get(Get(r.out.val, "Table"), "ItemCount")>> >>)))
            /\ table' = r.tbl
            /\ UNCHANGED bulk

\* results are transient: the caller drops the outcome before its next call
Release ==
    /\ Finished
    /\ run' = NoRun
    /\ UNCHANGED <<table, bulk>>

Next ==
    \/ FacadeGetItem
    \/ FacadePutItem
    \/ FacadeBatchWriteItem
    \/ FacadeUpdateItem
    \/ FacadeDeleteItem
    \/ FacadeQueryItems
    \/ FacadeQueryAllItems
    \/ FacadeScanItems
    \/ FacadeGetItemCount
    \/ HandlerRejects
    \/ HandlerPutItem
    \/ HandlerBatchStart
    \/ HandlerBatchChunk
    \/ HandlerGetItem
    \/ GetUsers
    \/ HandlerCheck
    \/ HandlerUpdateItem
    \/ HandlerDeleteItem
    \/ HandlerQueryItems
    \/ HandlerScanItems
    \/ HandlerItemCount
    \/ Release

Spec == Init /\ [][Next]_vars

(***************************************************************************)
(* Claims about the facade operations                                      *)
(***************************************************************************)
Called(op) == run.kind = "call" /\ run.op = op
TransportCalls(ev) == SelectSeq(ev, LAMBDA x : x.e = "transport")
ErrorLogs(ev) == SelectSeq(ev, LAMBDA x : x.e = "log.error")
\* the transport call of the facade operation raised a ClientError
TransportRaised ==
    /\ run.kind = "call"
    /\ \E i \in 1..Len(run.ev) : run.ev[i].e = "transport" /\ run.ev[i].detail \in ClientErrors

\* the plain form of a stored item, attribute by attribute
PlainForm(item) == PyDict([i \in 1..Len(item[2]) |-> <<item[2][i][1], PlainOfFirst(item[2][i][2])>>])

\* C1: whatever the operation and whether a logger is passed, omitted or passed
\* as None, a ClientError of the transport call is logged once at error level
\* with the operation's name and the error's message, and the same ClientError
\* is raised to the caller.
C1_TransportFailureLoggedAndReraised ==
    TransportRaised =>
        /\ Len(ErrorLogs(run.ev)) = 1
        /\ ErrorLogs(run.ev)[1].what = run.op
        /\ ErrorLogs(run.ev)[1].detail = run.fault
        /\ run.out = Err("ClientError", run.fault)

\* C2: when the transport call succeeds, get_item returns the empty dict for a
\* key the store does not hold (it neither raises nor returns None) and the
\* plain form of the stored item for a key it holds.
C2_GetItemEmptyOrPlain ==
    (Called("get_item") /\ run.fault = "ok") =>
        IF run.pre[run.key] = Absent
        THEN run.out = Ok(PyDict(<<>>))
        ELSE run.out = Ok(PlainForm(run.pre[run.key]))

\* get_item on a key the store does not hold, next to a key it holds
C2_Witness ==
    /\ Called("get_item") /\ run.fault = "ok"
    /\ run.pre[run.key] = Absent
    /\ \E k \in Keys : run.pre[k] # Absent
    /\ run.out = Ok(PyDict(<<>>))

\* C4 as stated: update_item on a key the store does not hold fails and creates
\* no item for the key.
C4_UpdateAbsentFails ==
    (Called("update_item") /\ run.pre[run.key] = Absent) =>
        ~run.out.ok /\ table[run.key] = Absent

\* C4 amended: update_item on a key the store does not hold does not fail on that
\* account: when the transport call succeeds it returns the response with the
\* new image under "updatedItem" and the store now holds an item made of the key
\* and the attribute that was set; it fails, creating nothing, only when the
\* transport call does not succeed.
C4_UpdateAbsentCreates ==
    (Called("update_item") /\ run.pre[run.key] = Absent) =>
        IF run.fault = "ok"
        THEN /\ run.out.ok
             /\ table = [run.pre EXCEPT ![run.key] =
                            PyDict(<< <<"_id", Wire("S", PyStr(run.key))>>,
                                      <<"Name", Wire("S", run.arg)>> >>)]
             /\ Get(run.out.val, "updatedItem") =
                    PyDict(<< <<"_id", PyStr(run.key)>>, <<"Name", run.arg>> >>)
        ELSE ~run.out.ok /\ table = run.pre

\* update_item has created the item of a key the store did not hold
C4_Witness ==
    /\ Called("update_item") /\ run.pre[run.key] = Absent /\ run.fault = "ok"
    /\ run.out.ok /\ table[run.key] # Absent

\* C5: delete_item on a key the store does not hold fails and leaves the store
\* as it was; on a key it holds, the transport call succeeding, it removes the
\* item and returns the plain form of the removed item under "deletedItem".
C5_DeleteAbsentFailsPresentReturnsOld ==
    Called("delete_item") =>
        IF run.pre[run.key] = Absent
        THEN ~run.out.ok /\ table = run.pre
        ELSE run.fault = "ok" =>
                /\ run.out.ok
                /\ table = [run.pre EXCEPT ![run.key] = Absent]
                /\ Get(run.out.val, "deletedItem") = PlainForm(run.pre[run.key])

\* delete_item on a key the store does not hold, the transport call succeeding:
\* the missing "Attributes" ends the call with a KeyError
C5_Witness ==
    /\ Called("delete_item") /\ run.fault = "ok"
    /\ run.pre[run.key] = Absent
    /\ \E k \in Keys : run.pre[k] # Absent
    /\ run.out = Err("KeyError", "Attributes")
    /\ table = run.pre

\* C8: get_item_count returns a scalar, the item count n of the metadata block
\* that describe_table reports.
C8_CountIsScalar ==
    (Called("get_item_count") /\ run.fault = "ok") => run.out = Ok(run.arg)

\* C9: every result a facade operation returns carries a metadata block with a
\* status indicator.
C9_ResultsCarryMetadata ==
    (run.kind = "call" /\ run.out.ok) =>
        /\ run.out.val[1] = "dict"
        /\ Has(run.out.val, "ResponseMetadata")
        /\ Has(Get(run.out.val, "ResponseMetadata"), "HTTPStatusCode")

(***************************************************************************)
(* Claims about the add-users handler                                      *)
(***************************************************************************)
Done(op) == run.kind = "handler" /\ run.pc = "done" /\ run.op = op
HandlerDone == run.kind = "handler" /\ run.pc = "done"
\* the transport calls of the invocation that did not succeed
Refusals(ev) == SelectSeq(ev, LAMBDA x : x.e = "transport" /\ x.detail # "ok")

RECURSIVE Flatten(_)
Flatten(chunks) == IF chunks = <<>> THEN <<>> ELSE Head(chunks) \o Flatten(Tail(chunks))

FailureMessages ==
    {PyStr("Failed to add item, see CloudWatch logs for details."),
     PyStr("Failed to update item, see CloudWatch logs for details."),
     PyStr("Failed to delete item, see CloudWatch logs for details."),
     PyStr("Failed to get item count, see CloudWatch logs for details."),
     PyStr("No items found."), PyStr("No matching item found")}

\* C10: when a store operation of an invocation does not succeed (the transport
\* raises, or answers with a status other than 200) the caller gets an envelope
\* with status 400 and a generic failure message.
C10_FailureAnswered400 ==
    (HandlerDone /\ Refusals(run.ev) # <<>>) =>
        /\ run.out.ok
        /\ Get(run.out.val, "statusCode") = PyInt(400)
        /\ \E i \in 1..Len(Get(run.out.val, "body")[2]) :
               Get(run.out.val, "body")[2][i][2] \in FailureMessages

(***************************************************************************)
(* Claims about retries, pages, codec failures and tracing                 *)
(***************************************************************************)
\* put_item was handed an item that serialize_item does not take
SerializeFails == Called("put_item") /\ ~serialize_item(run.arg).ok

\* C11: a facade operation whose codec steps succeed makes exactly one transport
\* call, whether the call succeeds, is refused or raises (no retry), and
\* query_items, query_all_items and scan_items make one call also when the page
\* they get says that more pages exist (no pagination).
C11_OneTransportCall ==
    (run.kind = "call" /\ ~SerializeFails) => Len(TransportCalls(run.ev)) = 1

\* query_items on a key the store holds gets a page with a LastEvaluatedKey and
\* returns it after its one call
C11_Witness ==
    /\ Called("query_items") /\ run.fault = "more"
    /\ run.pre[run.key] # Absent
    /\ run.out.ok /\ Has(run.out.val, "LastEvaluatedKey")
    /\ Get(run.out.val, "items") = PyList(<<PlainForm(run.pre[run.key])>>)
    /\ Len(TransportCalls(run.ev)) = 1

(***************************************************************************)
(* The facade over a stub transport whose items do not deserialize, and    *)
(* handed items that do not serialize                                      *)
(***************************************************************************)
\* a generated user with one attribute more, a float
BadUser(n) == PyDict(Append(FakeUser(n)[2], <<"Score", PyFloat("1.5")>>))
Batches ==
    {<<FakeUser(1)>>, <<BadUser(1)>>, <<FakeUser(1), BadUser(2), FakeUser(3)>>,
     <<FakeUser(1), FakeUser(2), PyDict(<< <<"_id", PyFake("_id", 3)>>, <<"Score", BigInt>> >>)>>}

StubGetItem ==
    \E k \in Keys, lg \in LoggerArgs, tr \in TracerArgs, f \in ItemFaults :
        LET r == get_item(table, KeyOf(k), lg, tr, f)
        IN  /\ Idle
            /\ run' = Call("get_item", k, PyNone, lg, tr, f, r)
            /\ table' = r.tbl
            /\ UNCHANGED bulk

StubBatchWriteItem ==
    \E items \in Batches, lg \in LoggerArgs, tr \in TracerArgs, f \in Faults :
        LET r == batch_write_item(bulk, items, lg, tr, f)
        IN  /\ Idle
            /\ run' = Call("batch_write_item", "-", PyList(items), lg, tr, f, r)
            /\ bulk' = r.tbl
            /\ UNCHANGED table

StubUpdateItem ==
    \E k \in Keys, name \in Names, lg \in LoggerArgs, tr \in TracerArgs, f \in ItemFaults :
        LET r == update_item(table, KeyOf(k), PyDict(<< <<"#Name", PyStr("Name")>> >>),
                             PyDict(<< <<":Name", Wire("S", PyStr(name))>> >>), lg, tr, f)
        IN  /\ Idle
            /\ run' = Call("update_item", k, PyStr(name), lg, tr, f, r)
            /\ table' = r.tbl
            /\ UNCHANGED bulk

StubDeleteItem ==
    \E k \in Keys, lg \in LoggerArgs, tr \in TracerArgs, f \in ItemFaults :
        LET r == delete_item(table, KeyOf(k), lg, tr, f)
        IN  /\ Idle
            /\ run' = Call("delete_item", k, PyNone, lg, tr, f, r)
            /\ table' = r.tbl
            /\ UNCHANGED bulk

StubQueryItems ==
    \E k \in Keys, lg \in LoggerArgs, tr \in TracerArgs, f \in ItemFaults :
        LET r == query_items(table, PyDict(<< <<":_id", Wire("S", PyStr(k))>> >>), lg, tr, f)
        IN  /\ Idle
            /\ run' = Call("query_items", k, PyNone, lg, tr, f, r)
            /\ table' = r.tbl
            /\ UNCHANGED bulk

StubQueryAllItems ==
    \E k \in Keys, lg \in LoggerArgs, tr \in TracerArgs, f \in ItemFaults :
        LET r == query_all_items(table, PyDict(<< <<":_id", Wire("S", PyStr(k))>> >>), lg, tr, f)
        IN  /\ Idle
            /\ run' = Call("query_all_items", k, PyNone, lg, tr, f, r)
            /\ table' = r.tbl
            /\ UNCHANGED bulk

StubScanItems ==
    \E k \in Keys, lg \in LoggerArgs, tr \in TracerArgs, f \in ItemFaults :
        LET r == scan_items(table, PyDict(<< <<":_id", Wire("S", PyStr(k))>> >>),
                            {"_id", "Name", "Email", "Address", "Phone"}, lg, tr, f)
        IN  /\ Idle
            /\ run' = Call("scan_items", k, PyNone, lg, tr, f, r)
            /\ table' = r.tbl
            /\ UNCHANGED bulk

NextStub ==
    \/ FacadePutItem
    \/ StubGetItem
    \/ StubBatchWriteItem
    \/ StubUpdateItem
    \/ StubDeleteItem
    \/ StubQueryItems
    \/ StubQueryAllItems
    \/ StubScanItems
    \/ Release

SpecStub == Init /\ [][NextStub]_vars

\* a codec step of the call failed: the item handed to put_item or one of the
\* items handed to batch_write_item does not serialize ...
SerializeFailed ==
    \/ Called("put_item") /\ ~serialize_item(run.arg).ok
    \/ Called("batch_write_item") /\ run.arg[1] = "list"
          /\ \E i \in 1..Len(run.arg[2]) : ~serialize_item(run.arg[2][i]).ok
\* ... or the transport call succeeded and handed back an item with a value
\* that has no type tag
DeserializeFailed ==
    /\ run.kind = "call" /\ run.fault = "garbled"
    /\ \/ run.op = "update_item"
       \/ run.op \in {"get_item", "delete_item", "query_items", "query_all_items", "scan_items"}
            /\ run.pre[run.key] # Absent

\* the error the codec raises for the first item of the call that it does not take
CodecError ==
    IF Called("put_item") THEN serialize_item(run.arg)
    ELSE IF Called("batch_write_item")
         THEN FirstBad([i \in 1..Len(run.arg[2]) |-> serialize_item(run.arg[2][i])])
    ELSE deserialize(NoTag)

\* C12: a codec failure inside a facade operation reaches the caller as it was
\* raised: it is not logged, not handed to the tracer as an exception and not
\* replaced; when it is a serialization failure of put_item or batch_write_item
\* no transport call was made, and when it is a deserialization failure the one
\* transport call came before it.
C12_CodecFailurePropagates ==
    (SerializeFailed \/ DeserializeFailed) =>
        /\ run.out = CodecError
        /\ ~run.out.ok /\ run.out.val[1] \in {"TypeError", "decimal.Inexact"}
        /\ ErrorLogs(run.ev) = <<>>
        /\ \A i \in 1..Len(run.ev) : run.ev[i].e # "capture_exception"
        /\ Len(TransportCalls(run.ev)) = (IF SerializeFailed THEN 0 ELSE 1)

\* batch_write_item is handed three users of which the second does not
\* serialize, with a tracer and no logger: TypeError, no transport call
C12_Witness ==
    /\ Called("batch_write_item") /\ SerializeFailed
    /\ Len(run.arg[2]) = 3 /\ run.logger = "kw_none" /\ run.tracer = "kw_tracer"
    /\ run.out = Err("TypeError", "Float types are not supported. Use Decimal types instead.")
    /\ TransportCalls(run.ev) = <<>>
    /\ bulk = {}

\* the calls an invocation made on the tracer
TracerCalls(ev) == SelectSeq(ev, LAMBDA x : x.by = "tracer")
\* the places of the events of one kind in ev
Places(ev, kind) == {i \in 1..Len(ev) : ev[i].e = kind}

\* C13: a facade operation calls the tracer only when it was given one, and when
\* it was given one it reports the attempted operation with capture_event
\* before it makes its transport call.
C13_TracingOptionalAndOrdered ==
    run.kind = "call" =>
        IF run.tracer = "omitted"
        THEN TracerCalls(run.ev) = <<>>
        ELSE /\ Cardinality(Places(run.ev, "capture_event")) = 1
             /\ \A i \in Places(run.ev, "capture_event"), j \in Places(run.ev, "transport") : i < j

\* delete_item with tracer= and logger= given, the transport call raising: the
\* span, the event, the call, the error log and the captured exception, in order
C13_Witness ==
    /\ Called("delete_item") /\ run.tracer = "kw_tracer" /\ run.logger = "kw_logger"
    /\ run.fault \in ClientErrors
    /\ [i \in 1..Len(run.ev) |-> run.ev[i].e] =
           <<"start_span", "capture_event", "transport", "log.error", "capture_exception">>

(***************************************************************************)
(* Claims about the handlers                                               *)
(***************************************************************************)
\* the transport calls the branch of an operation name may make, in order
Dispatch(operation) ==
    CASE operation = "putItem" -> {<<>>, <<"put_item">>}
      [] operation = "batchWriteItem" ->
            {[i \in 1..n |-> "batch_write_item"] : n \in 0..((MaxUsers \div BatchSize) + 1)}
      [] operation \in {"getItem", "get_users"} -> {<<"get_item">>}
      [] operation = "updateItem" -> {<<"get_item">>, <<"get_item", "update_item">>}
      [] operation = "queryItems" -> {<<"query">>}
      [] operation = "deleteItem" -> {<<"get_item">>, <<"get_item", "delete_item">>}
      [] operation = "scanItems" -> {<<"scan">>}
      [] operation = "itemCount" -> {<<"describe_table">>}
      [] OTHER -> {<<>>}

\* C14: an event without operation is answered 400 'Missing operation
\* parameter', an operation that is none of the eight names 400 'Invalid
\* operation parameter', in both cases without a transport call; an invocation
\* with one of the eight names calls the facade operation of that name (after
\* the get_item of the existence check, for updateItem and deleteItem) and no
\* other.
C14_ValidatesAndDispatches ==
    HandlerDone =>
        /\ run.op \in NoOperation =>
              /\ run.ev = <<>>
              /\ run.out = Ok(Envelope(400, << <<"message",
                      PyStr(IF run.op = "None" THEN "Missing operation parameter"
                            ELSE "Invalid operation parameter")>> >>))
              /\ table = run.pre
        /\ LET calls == TransportCalls(run.ev)
           IN  [i \in 1..Len(calls) |-> calls[i].what] \in Dispatch(run.op)

\* an unknown operation name is turned away while the store holds an item
C14_Witness ==
    /\ Done("listItems") /\ run.ev = <<>>
    /\ \E k \in Keys : table[k] # Absent
    /\ Get(run.out.val, "statusCode") = PyInt(400)
    /\ Get(Get(run.out.val, "body"), "message") = PyStr("Invalid operation parameter")

(***************************************************************************)
(* batch_list_dicts on its own                                             *)
(***************************************************************************)
InitBatches ==
    /\ table = [k \in Keys |-> Absent]
    /\ bulk = {}
    /\ \E n \in 0..MaxItems, batch_size \in {1, BatchSize} :
          run = [kind |-> "chunks", op |-> "input", items |-> FakeUsers(n),
                 batch_size |-> batch_size, out |-> <<>>]

\* list(batch_list_dicts(items_list=users, batch_size=...))
ListBatches ==
    /\ run.kind = "chunks" /\ run.op = "input"
    /\ run' = [run EXCEPT !.op = "batch_list_dicts",
                          !.out = batch_list_dicts(run.items, run.batch_size)]
    /\ UNCHANGED <<table, bulk>>

NextBatches == ListBatches

SpecBatches == InitBatches /\ [][NextBatches]_vars

BatchesListed == run.kind = "chunks" /\ run.op = "batch_list_dicts"

\* C15: the chunks that batch_list_dicts yields, put end to end in the order
\* yielded, are the input list; every chunk has at least one item and at most
\* batch_size (25), every chunk but the last exactly batch_size; 30 items give
\* chunks of 25 and 5, no item gives no chunk.
C15_ChunksPartitionTheList ==
    BatchesListed =>
        /\ Flatten(run.out) = run.items
        /\ \A j \in 1..Len(run.out) :
              /\ Len(run.out[j]) >= 1 /\ Len(run.out[j]) <= run.batch_size
              /\ j < Len(run.out) => Len(run.out[j]) = run.batch_size
        /\ (Len(run.items) = 30 /\ run.batch_size = BatchSize) =>
              [j \in 1..Len(run.out) |-> Len(run.out[j])] = <<25, 5>>
        /\ run.items = <<>> => run.out = <<>>

\* 30 users in chunks of 25: the users 1..25, then the users 26..30
C15_Witness ==
    /\ BatchesListed /\ run.batch_size = BatchSize /\ Len(run.items) = 30
    /\ run.out = <<SubSeq(FakeUsers(30), 1, 25), SubSeq(FakeUsers(30), 26, 30)>>

\* a fetch of the handlers whose transport call has succeeded
Fetched == (Done("getItem") \/ Done("get_users")) /\ Refusals(run.ev) = <<>>

\* C16: getItem of add-users and get_users of get-users answer a fetch whose
\* transport call succeeds with a 200 envelope: body.item is the plain item when
\* the store holds the key, 'No matching item found' when it does not.
C16_FetchAnswers200 ==
    Fetched =>
        run.out = Ok(Envelope(200, << <<"item",
                       IF run.pre[run.id] = Absent THEN PyStr("No matching item found")
                       ELSE PlainForm(run.pre[run.id])>> >>))

\* C17: for every userCount from 0 on, a batchWriteItem invocation whose
\* transport calls all succeed returns a 200 envelope whose usersWritten is
\* the list of the userCount generated users, in the order of generation.
C17_BatchAnswersForEveryCount ==
    (Done("batchWriteItem") /\ Refusals(run.ev) = <<>>) =>
        run.out = Ok(Envelope(200, BatchBody(run.userCount, FakeUsers(run.userCount))))

(***************************************************************************)
(* Invocations of the add-users handler that run at the same time: each is *)
(* its own Lambda execution, the table is what they share.  One step is    *)
(* one facade call; the calls of different invocations interleave freely.  *)
(***************************************************************************)
Invocations == 1..MaxInvocations

\* an item as putItem stores it
Stored(k, name) == serialize_item(UserItem(k, PyStr(name))).val

\* one invocation: its operation and id, where it stands, what the store held
\* under the id when its write was applied (was), and how it ended
Invocation(op, id, pc, was, out) == [op |-> op, id |-> id, pc |-> pc, was |-> was, out |-> out]

InitRace ==
    /\ table \in [Keys -> {Absent}] \cup {[k \in Keys |-> Stored(k, "Ana")]}
                 \cup {[k \in Keys |-> IF k = j THEN Stored(k, "Ana") ELSE Absent] : j \in Keys}
    /\ bulk = {}
    /\ \E ops \in [Invocations -> {"updateItem", "deleteItem"}], ids \in [Invocations -> Keys] :
          run = [kind |-> "race",
                 inv |-> [p \in Invocations |->
                            Invocation(ops[p], ids[p], "check", PyNone, Ok(PyNone))]]

\* the envelope of updateItem after update_item has returned
UpdateAnswer(r) ==
    LET status == StatusOf(r.out.val)
    IN  IF ~r.out.ok THEN r.out
        ELSE IF ~status.ok THEN status
        ELSE Ok(Envelope(Checked(status.val),
                << <<"message", PyStr(IF status.val # 200
                      THEN "Failed to update item, see CloudWatch logs for details."
                      ELSE "Item updated successfully")>>,
                   <<"updatedItem", Get(r.out.val, "updatedItem")>> >>))

\* the envelope of deleteItem after delete_item has returned
DeleteAnswer(r) ==
    LET status == StatusOf(r.out.val)
    IN  IF ~r.out.ok THEN r.out
        ELSE IF ~status.ok THEN status
        ELSE Ok(Envelope(Checked(status.val),
                << <<"message", PyStr(IF status.val # 200
                      THEN "Failed to delete item, see CloudWatch logs for details."
                      ELSE "Item deleted successfully")>>,
                   <<"deletedItem", Get(r.out.val, "deletedItem")>> >>))

\* the existence check of an invocation: get_item, "if not response"
RaceCheck ==
    \E p \in Invocations, f \in Faults :
        LET me == run.inv[p]
            r == get_item(table, KeyOf(me.id), "kw_logger", "omitted", f)
        IN  /\ run.kind = "race" /\ me.pc = "check"
            /\ run' = [run EXCEPT !.inv[p] =
                         IF ~r.out.ok THEN [me EXCEPT !.pc = "done", !.out = r.out]
                         ELSE IF ~Truthy(r.out.val) THEN [me EXCEPT !.pc = "done", !.out = NotFound]
                         ELSE [me EXCEPT !.pc = "write"]]
            /\ table' = r.tbl
            /\ UNCHANGED bulk

\* the update_item call of an updateItem invocation that passed its check
RaceUpdate ==
    \E p \in Invocations, name \in Names, f \in Faults :
        LET me == run.inv[p]
            r == update_item(table, KeyOf(me.id), PyDict(<< <<"#Name", PyStr("Name")>> >>),
                             PyDict(<< <<":Name", Wire("S", PyStr(name))>> >>),
                             "kw_logger", "omitted", f)
        IN  /\ run.kind = "race" /\ me.pc = "write" /\ me.op = "updateItem"
            /\ run' = [run EXCEPT !.inv[p] =
                         [me EXCEPT !.pc = "done", !.was = table[me.id], !.out = UpdateAnswer(r)]]
            /\ table' = r.tbl
            /\ UNCHANGED bulk

\* the delete_item call of a deleteItem invocation that passed its check
RaceDelete ==
    \E p \in Invocations, f \in Faults :
        LET me == run.inv[p]
            r == delete_item(table, KeyOf(me.id), "kw_logger", "omitted", f)
        IN  /\ run.kind = "race" /\ me.pc = "write" /\ me.op = "deleteItem"
            /\ run' = [run EXCEPT !.inv[p] =
                         [me EXCEPT !.pc = "done", !.was = table[me.id], !.out = DeleteAnswer(r)]]
            /\ table' = r.tbl
            /\ UNCHANGED bulk

NextRace == RaceCheck \/ RaceUpdate \/ RaceDelete

SpecRace == InitRace /\ [][NextRace]_vars

\* C18: however the calls of concurrent updateItem and deleteItem invocations on
\* one id interleave, an update that an updateItem invocation applies meets an
\* item that exists at that moment: it never creates an item again under an id
\* that another invocation has deleted since the check.
C18_UpdateNeverRecreates ==
    run.kind = "race" =>
        \A p \in Invocations :
            (run.inv[p].op = "updateItem" /\ run.inv[p].pc = "done"
               /\ run.inv[p].out.ok /\ run.inv[p].out # NotFound)
                => run.inv[p].was # Absent

====
